---- MODULE Spec2Model ----
(***************************************************************************)
(* EasyAsync (lib/EasyAsync/src/EasyAsync.h): Task / TaskHandle lifecycle, *)
(* the CallbackQueue and the Async facade, as a state machine.             *)
(*                                                                         *)
(* Threads: the control-loop thread ("owner": setup()/loop() of main.cpp)  *)
(* calls run(), cancel(), Async::update(), Async::pendingCallbacks() and   *)
(* Async::setConfig(), at top level or from inside a completion callable   *)
(* that process() is running; every successful xTaskCreate adds one        *)
(* preemptively scheduled execution context that runs the wrapper lambda   *)
(* of Task::run.  Every store to a field another thread reads or writes is *)
(* a step of its own, a reading of millis() is taken before it is stored,  *)
(* and the work callable is entered and left in separate steps, so every   *)
(* interleaving the FreeRTOS scheduler can produce on two cores is a       *)
(* behaviour.                                                              *)
(***************************************************************************)
EXTENDS Naturals, Sequences, FiniteSets

\* ---- bounds ----
\* Task objects, and calls of run() over all of them
NumTasks == 2
MaxRuns == 2
\* Last reading of millis(); the first one, when setup() begins, is 1
MaxClock == 2

Tasks == 1..NumTasks
Contexts == 1..MaxRuns

\* ---- values ----
NULL == 0
\* Holder of the mutex when the control-loop thread has it (contexts are 1..MaxRuns).
Owner == MaxRuns + 1

\* enum class TaskState
Pending == "Pending"
Running == "Running"
Completed == "Completed"
Failed == "Failed"
Cancelled == "Cancelled"
Terminal == {Completed, Failed, Cancelled}

\* The work callable bound to task t, as the tuple of values it hands to the
\* completion callable: task 1 is a void callable (void overload of
\* executeTask, callback()), the others return a value (typed overload,
\* callback(*result)).
func(t) == IF t = 1 THEN <<>> ELSE <<40 + t>>

VARIABLES
    state,                  \* TaskHandle::state, per task
    cancelled,              \* TaskHandle::cancelled
    taskHandle,             \* TaskHandle::taskHandle (NULL or a context)
    executeInLoop,          \* TaskConfig::executeInLoop captured by taskFunc
    clock,                  \* millis()
    startTime,              \* TaskHandle::startTime
    endTime,                \* TaskHandle::endTime
    executeCallbacksInLoop, \* globalConfig.executeCallbacksInLoop
    queue,                  \* CallbackQueue::queue
    mutex,                  \* CallbackQueue::mutex: NULL, Owner or a context
    ctxTask,                \* task of the c-th call of run() (NULL: not called yet)
    ctxPc,                  \* position of a context in wrapper/executeTask/enqueue
    ctxBlock,               \* control block (the TaskHandle_t pointer) of a context
    result,                 \* executeTask's local result of a context
    work,                   \* per context: "no", "returned" or "threw" (func())
    ctxNow,                 \* per context: the value millis() returned in setState,
                            \* not stored yet (0: none)
    ownerPc,                \* position of the control-loop thread
    ownerTask,              \* the Task the owner's current run()/cancel() is on
    ownerHandle,            \* run()'s local taskHandle
    ownerNow,               \* the value millis() returned to the control-loop thread
                            \* in setHandle / setState, not stored yet (0: none)
    callback,               \* the local callback of every process() in progress,
                            \* innermost last
    \* history
    enqLog,                 \* thunks in the order they were pushed
    execLog,                \* thunks in the order process() called them
    calls,                  \* per task: values its completion callable received
    submitted,              \* per context: "none", "queued" or "inline"
    cancelledAtCall,        \* per context: the cancelled flag when func() was called
    cancelledAtReturn,      \* per context: the cancelled flag when func() returned
    updateSaw               \* "call": the update() in progress was called with every
                            \* fire-and-forget task Completed; "after": it has returned

taskVars == <<state, cancelled, taskHandle, executeInLoop>>
timeVars == <<clock, startTime, endTime>>
nowVars == <<ctxNow, ownerNow>>
queueVars == <<queue, mutex>>
ctxVars == <<ctxTask, ctxPc, ctxBlock, result, work>>
ownerVars == <<ownerPc, ownerTask, ownerHandle, callback>>
histVars == <<enqLog, execLog, calls, submitted, cancelledAtCall, cancelledAtReturn, updateSaw>>
vars ==
    <<taskVars, timeVars, nowVars, executeCallbacksInLoop, queueVars, ctxVars, ownerVars,
      histVars>>

Alive(c) == ctxPc[c] \notin {"none", "nocontext", "done", "killed"}

\* A completion thunk: callbackWrapper of context c of task t capturing value v.
Thunk(t, c, v) == [task |-> t, ctx |-> c, val |-> v]

\* A thunk that the completion callable of task t hands to
\* CallbackQueue::enqueue while it runs inside process(); it just returns.
FollowUp(t) == [task |-> t, ctx |-> NULL, val |-> <<>>]

Init ==
    /\ state = [t \in Tasks |-> Pending]
    /\ cancelled = [t \in Tasks |-> FALSE]
    /\ taskHandle = [t \in Tasks |-> NULL]
    \* TaskConfig: task 1 has the default (executeInLoop = true), task 2 either
    /\ executeInLoop \in {cfg \in [Tasks -> BOOLEAN] : cfg[1]}
    /\ clock = 1
    /\ startTime = [t \in Tasks |-> 0]
    /\ endTime = [t \in Tasks |-> 0]
    /\ executeCallbacksInLoop = TRUE
    /\ queue = <<>>
    /\ mutex = NULL
    /\ ctxTask = [c \in Contexts |-> NULL]
    /\ ctxPc = [c \in Contexts |-> "none"]
    /\ ctxBlock = [c \in Contexts |-> NULL]
    /\ result = [c \in Contexts |-> <<>>]
    /\ work = [c \in Contexts |-> "no"]
    /\ ctxNow = [c \in Contexts |-> 0]
    /\ ownerPc = "idle"
    /\ ownerTask = NULL
    /\ ownerHandle = NULL
    /\ ownerNow = 0
    /\ callback = <<>>
    /\ enqLog = <<>>
    /\ execLog = <<>>
    /\ calls = [t \in Tasks |-> <<>>]
    /\ submitted = [c \in Contexts |-> "none"]
    /\ cancelledAtCall = [c \in Contexts |-> FALSE]
    /\ cancelledAtReturn = [c \in Contexts |-> FALSE]
    /\ updateSaw = "no"

\* An exception left process() and loop(): std::terminate has ended the program.
Halted == ownerPc = "aborted"

\* ---- TaskHandle ----

\* TaskHandle::setState(newState): state = newState;
setState(t, newState) == state' = [state EXCEPT ![t] = newState]

\* millis(): the reading a thread gets when it calls it
millis == clock

\* TaskHandle::setState(newState), for a terminal newState: endTime = millis();
\* the store of the reading millis() returned to the calling thread
setEndTime(t, reading) == endTime' = [endTime EXCEPT ![t] = reading]

\* TaskHandle::setHandle(handle): taskHandle = handle; state = Running;
\* (taskHandle is read by the control-loop thread only, so the two stores are
\* one step for every other thread)
setHandle(t, handle) ==
    /\ taskHandle' = [taskHandle EXCEPT ![t] = handle]
    /\ state' = [state EXCEPT ![t] = Running]

\* TaskHandle::setHandle(handle): startTime = millis(); the store of the
\* reading millis() returned to the calling thread
setStartTime(t, reading) == startTime' = [startTime EXCEPT ![t] = reading]

\* TaskHandle::isCancelled()
isCancelled(t) == cancelled[t]

\* ---- CallbackQueue container ----

\* Mutation of enqueue: the thunk goes to the head of the container.
enqueue_front(q, thunk) == <<thunk>> \o q

\* std::queue::push in CallbackQueue::enqueue
enqueue(q, thunk) == Append(q, thunk)

\* std::queue::front / pop in CallbackQueue::process
front(q) == Head(q)
pop(q) == Tail(q)

\* ---- execution context: wrapper lambda of Task::run, executeTask ----

\* executeTask: if (h->isCancelled()) return;
WrapperStart(c) ==
    /\ ctxPc[c] = "start"
    /\ ctxPc' = [ctxPc EXCEPT ![c] = IF isCancelled(ctxTask[c]) THEN "exit" ELSE "func"]
    /\ UNCHANGED <<nowVars, taskVars, timeVars, executeCallbacksInLoop, queueVars, ctxTask, ctxBlock,
                   result, work, ownerVars, histVars>>

\* executeTask: func() is called: the context is inside the work callable
\* from here on, for as long as the callable takes (it may wait, or never
\* return).
CallFunc(c) ==
    /\ ctxPc[c] = "func"
    /\ ctxPc' = [ctxPc EXCEPT ![c] = "inFunc"]
    /\ cancelledAtCall' = [cancelledAtCall EXCEPT ![c] = cancelled[ctxTask[c]]]
    /\ UNCHANGED <<nowVars, taskVars, timeVars, executeCallbacksInLoop, queueVars, ctxTask, ctxBlock,
                   result, work, ownerVars, enqLog, execLog, calls, submitted,
                   cancelledAtReturn, updateSaw>>

\* executeTask: func() returns; the result is captured.
FuncReturn(c) ==
    /\ ctxPc[c] = "inFunc"
    /\ result' = [result EXCEPT ![c] = func(ctxTask[c])]
    /\ work' = [work EXCEPT ![c] = "returned"]
    /\ ctxPc' = [ctxPc EXCEPT ![c] = "check"]
    /\ cancelledAtReturn' = [cancelledAtReturn EXCEPT ![c] = cancelled[ctxTask[c]]]
    /\ UNCHANGED <<nowVars, taskVars, timeVars, executeCallbacksInLoop, queueVars, ctxTask, ctxBlock,
                   ownerVars, enqLog, execLog, calls, submitted, cancelledAtCall, updateSaw>>

\* executeTask: func() throws; control goes to catch (...).
FuncThrow(c) ==
    /\ ctxPc[c] = "inFunc"
    /\ work' = [work EXCEPT ![c] = "threw"]
    /\ ctxPc' = [ctxPc EXCEPT ![c] = "failed"]
    /\ UNCHANGED <<nowVars, taskVars, timeVars, executeCallbacksInLoop, queueVars, ctxTask, ctxBlock,
                   result, ownerVars, histVars>>

\* executeTask: if (!h->isCancelled()) { ... }
CheckCancelled(c) ==
    /\ ctxPc[c] = "check"
    /\ ctxPc' = [ctxPc EXCEPT ![c] = IF isCancelled(ctxTask[c]) THEN "exit" ELSE "complete"]
    /\ UNCHANGED <<nowVars, taskVars, timeVars, executeCallbacksInLoop, queueVars, ctxTask, ctxBlock,
                   result, work, ownerVars, histVars>>

\* executeTask: h->setState(TaskState::Completed), the store of state
SetCompleted(c) ==
    /\ ctxPc[c] = "complete"
    /\ setState(ctxTask[c], Completed)
    /\ ctxPc' = [ctxPc EXCEPT ![c] = "completeMillis"]
    /\ UNCHANGED <<nowVars, cancelled, taskHandle, executeInLoop, timeVars, executeCallbacksInLoop,
                   queueVars, ctxTask, ctxBlock, result, work, ownerVars, histVars>>

\* executeTask: h->setState(TaskState::Completed), the call of millis()
SetCompletedMillis(c) ==
    /\ ctxPc[c] = "completeMillis"
    /\ ctxNow' = [ctxNow EXCEPT ![c] = millis]
    /\ ctxPc' = [ctxPc EXCEPT ![c] = "completeEnd"]
    /\ UNCHANGED <<ownerNow, taskVars, timeVars, executeCallbacksInLoop, queueVars, ctxTask,
                   ctxBlock, result, work, ownerVars, histVars>>

\* executeTask: h->setState(TaskState::Completed), the store of endTime; then
\* the branch on cfg.executeInLoop
SetCompletedEnd(c) ==
    /\ ctxPc[c] = "completeEnd"
    /\ setEndTime(ctxTask[c], ctxNow[c])
    /\ ctxNow' = [ctxNow EXCEPT ![c] = 0]
    /\ ctxPc' = [ctxPc EXCEPT ![c] = IF executeInLoop[ctxTask[c]] THEN "take" ELSE "inline"]
    /\ UNCHANGED <<ownerNow, taskVars, clock, startTime, executeCallbacksInLoop, queueVars,
                   ctxTask, ctxBlock, result, work, ownerVars, histVars>>

\* CallbackQueue::enqueue: xSemaphoreTake(mutex, portMAX_DELAY)
EnqueueTake(c) ==
    /\ ctxPc[c] = "take"
    /\ mutex = NULL
    /\ mutex' = c
    /\ ctxPc' = [ctxPc EXCEPT ![c] = "push"]
    /\ UNCHANGED <<nowVars, taskVars, timeVars, executeCallbacksInLoop, queue, ctxTask, ctxBlock,
                   result, work, ownerVars, histVars>>

\* CallbackQueue::enqueue: queue.push(callback)
EnqueuePush(c) ==
    /\ ctxPc[c] = "push"
    /\ queue' = enqueue(queue, Thunk(ctxTask[c], c, result[c]))
    /\ enqLog' = Append(enqLog, Thunk(ctxTask[c], c, result[c]))
    /\ submitted' = [submitted EXCEPT ![c] = "queued"]
    /\ ctxPc' = [ctxPc EXCEPT ![c] = "give"]
    /\ UNCHANGED <<nowVars, taskVars, timeVars, executeCallbacksInLoop, mutex, ctxTask, ctxBlock,
                   result, work, ownerVars, execLog, calls, cancelledAtCall, cancelledAtReturn, updateSaw>>

\* CallbackQueue::enqueue: xSemaphoreGive(mutex)
EnqueueGive(c) ==
    /\ ctxPc[c] = "give"
    /\ mutex' = NULL
    /\ ctxPc' = [ctxPc EXCEPT ![c] = "log"]
    /\ UNCHANGED <<nowVars, taskVars, timeVars, executeCallbacksInLoop, queue, ctxTask, ctxBlock,
                   result, work, ownerVars, histVars>>

\* CallbackQueue::enqueue: ASYNC_LOG(..., queue.size()) after the mutex was
\* given back: a read of the container that changes nothing.
EnqueueLog(c) ==
    /\ ctxPc[c] = "log"
    /\ ctxPc' = [ctxPc EXCEPT ![c] = "exit"]
    /\ UNCHANGED <<nowVars, taskVars, timeVars, executeCallbacksInLoop, queueVars, ctxTask, ctxBlock,
                   result, work, ownerVars, histVars>>

\* executeTask: callbackWrapper() on the worker; the callable returns or throws
\* (the call is inside the try block).
InlineCallback(c) ==
    /\ ctxPc[c] = "inline"
    /\ calls' = [calls EXCEPT ![ctxTask[c]] = Append(@, result[c])]
    /\ submitted' = [submitted EXCEPT ![c] = "inline"]
    /\ \/ ctxPc' = [ctxPc EXCEPT ![c] = "exit"]
       \/ ctxPc' = [ctxPc EXCEPT ![c] = "failed"]
    /\ UNCHANGED <<nowVars, taskVars, timeVars, executeCallbacksInLoop, queueVars, ctxTask, ctxBlock,
                   result, work, ownerVars, enqLog, execLog, cancelledAtCall, cancelledAtReturn, updateSaw>>

\* executeTask: catch (...) { h->setState(TaskState::Failed); }, the store of state
SetFailed(c) ==
    /\ ctxPc[c] = "failed"
    /\ setState(ctxTask[c], Failed)
    /\ ctxPc' = [ctxPc EXCEPT ![c] = "failedMillis"]
    /\ UNCHANGED <<nowVars, cancelled, taskHandle, executeInLoop, timeVars, executeCallbacksInLoop,
                   queueVars, ctxTask, ctxBlock, result, work, ownerVars, histVars>>

\* executeTask: catch (...) { h->setState(TaskState::Failed); }, the call of millis()
SetFailedMillis(c) ==
    /\ ctxPc[c] = "failedMillis"
    /\ ctxNow' = [ctxNow EXCEPT ![c] = millis]
    /\ ctxPc' = [ctxPc EXCEPT ![c] = "failedEnd"]
    /\ UNCHANGED <<ownerNow, taskVars, timeVars, executeCallbacksInLoop, queueVars, ctxTask,
                   ctxBlock, result, work, ownerVars, histVars>>

\* executeTask: catch (...) { h->setState(TaskState::Failed); }, the store of endTime
SetFailedEnd(c) ==
    /\ ctxPc[c] = "failedEnd"
    /\ setEndTime(ctxTask[c], ctxNow[c])
    /\ ctxNow' = [ctxNow EXCEPT ![c] = 0]
    /\ ctxPc' = [ctxPc EXCEPT ![c] = "exit"]
    /\ UNCHANGED <<ownerNow, taskVars, clock, startTime, executeCallbacksInLoop, queueVars,
                   ctxTask, ctxBlock, result, work, ownerVars, histVars>>

\* wrapper: delete func; vTaskDelete(NULL);
WrapperExit(c) ==
    /\ ctxPc[c] = "exit"
    /\ ctxPc' = [ctxPc EXCEPT ![c] = "done"]
    /\ UNCHANGED <<nowVars, taskVars, timeVars, executeCallbacksInLoop, queueVars, ctxTask, ctxBlock,
                   result, work, ownerVars, histVars>>

\* ---- control-loop thread: where a call can be made and where it returns to ----

\* The thunk the innermost process() in progress has popped
Top(cb) == cb[Len(cb)]
AllButTop(cb) == SubSeq(cb, 1, Len(cb) - 1)

\* The control-loop thread is between two statements of setup()/loop()
\* ("idle") or of a completion callable that process() is running ("thunk"):
\* the next statement can be a call of the library.
AtCall ==
    \/ ownerPc = "idle"
    \/ ownerPc = "thunk" /\ Top(callback).ctx # NULL

\* Where a call of the library returns to
Ret(cb) == IF cb = <<>> THEN "idle" ELSE "thunk"

\* ---- control-loop thread: Task::run ----

\* The calls of run() are numbered 1..MaxRuns; call number c creates context c
\* or fails to ("nocontext").  The number of the next call:
NextContext == CHOOSE c \in Contexts : ctxPc[c] = "none" /\ \A d \in Contexts : ctxPc[d] = "none" => c <= d

\* Control blocks of ended contexts that no live context occupies: the
\* allocator hands the next context a fresh block or one of these, and its
\* TaskHandle_t is then the same pointer as the ended context's.
FreedBlocks ==
    {ctxBlock[d] : d \in {e \in Contexts : ctxPc[e] \in {"done", "killed"}}}
        \ {ctxBlock[d] : d \in {e \in Contexts : Alive(e)}}

\* run(): xTaskCreate / xTaskCreatePinnedToCore returns pdPASS; the new context
\* is ready to run from here on, before run() has stored its handle.
RunCreate(t) ==
    /\ AtCall
    /\ \E c \in Contexts : ctxPc[c] = "none"
    /\ LET c == NextContext IN
        /\ ctxTask' = [ctxTask EXCEPT ![c] = t]
        /\ ctxPc' = [ctxPc EXCEPT ![c] = "start"]
        /\ \E b \in FreedBlocks \cup {c} : ctxBlock' = [ctxBlock EXCEPT ![c] = b]
        /\ ownerHandle' = c
    /\ ownerPc' = "setHandle"
    /\ ownerTask' = t
    /\ UNCHANGED <<nowVars, taskVars, timeVars, executeCallbacksInLoop, queueVars, result, work,
                   callback, histVars>>

\* run(): xTaskCreate returns something else than pdPASS: no context comes to
\* exist for this call; delete funcCopy;
RunFail(t) ==
    /\ AtCall
    /\ \E c \in Contexts : ctxPc[c] = "none"
    /\ ctxTask' = [ctxTask EXCEPT ![NextContext] = t]
    /\ ctxPc' = [ctxPc EXCEPT ![NextContext] = "nocontext"]
    /\ ownerPc' = "failState"
    /\ ownerTask' = t
    /\ UNCHANGED <<nowVars, taskVars, timeVars, executeCallbacksInLoop, queueVars, ctxBlock, result,
                   work, ownerHandle, callback, histVars>>

\* run(), result != pdPASS: handle->setState(TaskState::Failed), the store of state
RunFailState ==
    /\ ownerPc = "failState"
    /\ setState(ownerTask, Failed)
    /\ ownerPc' = "failMillis"
    /\ UNCHANGED <<nowVars, cancelled, taskHandle, executeInLoop, timeVars, executeCallbacksInLoop,
                   queueVars, ctxVars, ownerTask, ownerHandle, callback, histVars>>

\* run(), result != pdPASS: setState(Failed), the call of millis()
RunFailMillis ==
    /\ ownerPc = "failMillis"
    /\ ownerNow' = millis
    /\ ownerPc' = "failEnd"
    /\ UNCHANGED <<ctxNow, taskVars, timeVars, executeCallbacksInLoop, queueVars, ctxVars,
                   ownerTask, ownerHandle, callback, histVars>>

\* run(), result != pdPASS: the store of endTime; return false;
RunFailEnd ==
    /\ ownerPc = "failEnd"
    /\ setEndTime(ownerTask, ownerNow)
    /\ ownerNow' = 0
    /\ ownerPc' = Ret(callback)
    /\ ownerTask' = NULL
    /\ UNCHANGED <<ctxNow, taskVars, clock, startTime, executeCallbacksInLoop, queueVars, ctxVars,
                   ownerHandle, callback, histVars>>

\* run(): handle->setHandle(taskHandle), the stores of taskHandle and state
RunSetHandle ==
    /\ ownerPc = "setHandle"
    /\ setHandle(ownerTask, ownerHandle)
    /\ ownerPc' = "setStartMillis"
    /\ UNCHANGED <<nowVars, cancelled, executeInLoop, timeVars, executeCallbacksInLoop, queueVars,
                   ctxVars, ownerTask, ownerHandle, callback, histVars>>

\* run(): handle->setHandle(taskHandle), the call of millis()
RunSetStartMillis ==
    /\ ownerPc = "setStartMillis"
    /\ ownerNow' = millis
    /\ ownerPc' = "setStart"
    /\ UNCHANGED <<ctxNow, taskVars, timeVars, executeCallbacksInLoop, queueVars, ctxVars,
                   ownerTask, ownerHandle, callback, histVars>>

\* run(): handle->setHandle(taskHandle), the store of startTime; return true;
RunSetStart ==
    /\ ownerPc = "setStart"
    /\ setStartTime(ownerTask, ownerNow)
    /\ ownerNow' = 0
    /\ ownerPc' = Ret(callback)
    /\ ownerTask' = NULL
    /\ ownerHandle' = NULL
    /\ UNCHANGED <<ctxNow, taskVars, clock, endTime, executeCallbacksInLoop, queueVars, ctxVars,
                   callback, histVars>>

\* ---- control-loop thread: Task::cancel -> TaskHandle::cancel ----

\* cancel(): cancelled = true;
CancelSetFlag(t) ==
    /\ AtCall
    /\ cancelled' = [cancelled EXCEPT ![t] = TRUE]
    /\ ownerPc' = "cancelCheck"
    /\ ownerTask' = t
    /\ UNCHANGED <<nowVars, state, taskHandle, executeInLoop, timeVars, executeCallbacksInLoop,
                   queueVars, ctxVars, ownerHandle, callback, histVars>>

\* cancel(): if (taskHandle != nullptr && state == TaskState::Running)
CancelCheck ==
    /\ ownerPc = "cancelCheck"
    /\ IF taskHandle[ownerTask] # NULL /\ state[ownerTask] = Running
       THEN /\ ownerPc' = "cancelState"
            /\ UNCHANGED ownerTask
       ELSE /\ ownerPc' = Ret(callback)
            /\ ownerTask' = NULL
    /\ UNCHANGED <<nowVars, taskVars, timeVars, executeCallbacksInLoop, queueVars, ctxVars,
                   ownerHandle, callback, histVars>>

\* cancel(): setState(TaskState::Cancelled), the store of state
CancelState ==
    /\ ownerPc = "cancelState"
    /\ setState(ownerTask, Cancelled)
    /\ ownerPc' = "cancelMillis"
    /\ UNCHANGED <<nowVars, cancelled, taskHandle, executeInLoop, timeVars, executeCallbacksInLoop,
                   queueVars, ctxVars, ownerTask, ownerHandle, callback, histVars>>

\* cancel(): setState(TaskState::Cancelled), the call of millis()
CancelMillis ==
    /\ ownerPc = "cancelMillis"
    /\ ownerNow' = millis
    /\ ownerPc' = "cancelEnd"
    /\ UNCHANGED <<ctxNow, taskVars, timeVars, executeCallbacksInLoop, queueVars, ctxVars,
                   ownerTask, ownerHandle, callback, histVars>>

\* cancel(): setState(TaskState::Cancelled), the store of endTime
CancelEnd ==
    /\ ownerPc = "cancelEnd"
    /\ setEndTime(ownerTask, ownerNow)
    /\ ownerNow' = 0
    /\ ownerPc' = "cancelDelete"
    /\ UNCHANGED <<ctxNow, taskVars, clock, startTime, executeCallbacksInLoop, queueVars, ctxVars,
                   ownerTask, ownerHandle, callback, histVars>>

\* The live context at the control block of context h: h itself, or the one
\* that got the block after h ended.
Occupant(h) ==
    {c \in Contexts : Alive(c) /\ ctxBlock[c] = ctxBlock[h]}

\* vTaskDelete(h) from another thread ends the context living at h where it
\* stands (a mutex it holds stays taken).  When the context h was created for
\* has ended, the call is on a dangling pointer: it ends the context that
\* reuses the block, or has no visible effect when the block is unused.
vTaskDelete(h) ==
    ctxPc' = [c \in Contexts |-> IF c \in Occupant(h) THEN "killed" ELSE ctxPc[c]]

\* cancel(): vTaskDelete(taskHandle); taskHandle = nullptr; (a reading of
\* millis() the deleted context had not stored yet is gone with it)
CancelDelete ==
    /\ ownerPc = "cancelDelete"
    /\ vTaskDelete(taskHandle[ownerTask])
    /\ ctxNow' = [c \in Contexts |->
                    IF c \in Occupant(taskHandle[ownerTask]) THEN 0 ELSE ctxNow[c]]
    /\ taskHandle' = [taskHandle EXCEPT ![ownerTask] = NULL]
    /\ ownerPc' = Ret(callback)
    /\ ownerTask' = NULL
    /\ UNCHANGED <<ownerNow, state, cancelled, executeInLoop, timeVars, executeCallbacksInLoop,
                   queueVars, ctxTask, ctxBlock, result, work, ownerHandle, callback,
                   histVars>>

\* ---- control-loop thread: Async ----

\* Async::setConfig(config)
SetConfig(b) ==
    /\ AtCall
    /\ executeCallbacksInLoop' = b
    /\ UNCHANGED <<nowVars, taskVars, timeVars, queueVars, ctxVars, ownerVars, histVars>>

\* Every Task was launched once as by Async::RunFireAndForget (a context was
\* created, default TaskConfig: executeInLoop) and reports Completed.
AllFireAndForgetCompleted ==
    \A t \in Tasks :
        /\ state[t] = Completed
        /\ executeInLoop[t]
        /\ \E c \in Contexts : {d \in Contexts : ctxTask[d] = t} = {c} /\ ctxPc[c] # "nocontext"

\* What an update() called from loop() saw, once it has returned
Returned(saw) == IF saw = "call" THEN "after" ELSE "no"

\* updateSaw after a process() returned to Ret(cb): only the update() that
\* loop() called is recorded, not one called by a completion callable.
AfterReturn(cb) == IF cb = <<>> THEN Returned(updateSaw) ELSE updateSaw

\* Async::update(): if (globalConfig.executeCallbacksInLoop) process();
Update ==
    /\ AtCall
    /\ ownerPc' = IF executeCallbacksInLoop THEN "process" ELSE ownerPc
    /\ updateSaw' = IF ownerPc # "idle" THEN updateSaw
                    ELSE IF executeCallbacksInLoop /\ AllFireAndForgetCompleted
                         THEN "call" ELSE "no"
    /\ UNCHANGED <<nowVars, taskVars, timeVars, executeCallbacksInLoop, queueVars, ctxVars, ownerTask,
                   ownerHandle, callback, enqLog, execLog, calls, submitted, cancelledAtCall, cancelledAtReturn>>

\* Mutation of ProcessTryTake: a drain that finds the mutex taken pops the
\* head of the queue without the lock before it returns.
ProcessTryTake_pops ==
    /\ ownerPc = "process"
    /\ IF mutex = NULL
       THEN mutex' = Owner /\ ownerPc' = "drain" /\ UNCHANGED <<queue, updateSaw>>
       ELSE /\ UNCHANGED mutex
            /\ ownerPc' = Ret(callback)
            /\ updateSaw' = AfterReturn(callback)
            /\ queue' = IF queue = <<>> THEN queue ELSE Tail(queue)
    /\ UNCHANGED <<nowVars, taskVars, timeVars, executeCallbacksInLoop, ctxVars, ownerTask,
                   ownerHandle, callback, enqLog, execLog, calls, submitted, cancelledAtCall, cancelledAtReturn>>

\* process(): if (xSemaphoreTake(mutex, 0) == pdTRUE) { ... } else return
ProcessTryTake ==
    /\ ownerPc = "process"
    /\ IF mutex = NULL
       THEN mutex' = Owner /\ ownerPc' = "drain" /\ UNCHANGED updateSaw
       ELSE /\ UNCHANGED mutex
            /\ ownerPc' = Ret(callback)
            /\ updateSaw' = AfterReturn(callback)
    /\ UNCHANGED <<nowVars, taskVars, timeVars, executeCallbacksInLoop, queue, ctxVars, ownerTask,
                   ownerHandle, callback, enqLog, execLog, calls, submitted, cancelledAtCall, cancelledAtReturn>>

\* Mutation of ProcessLoop: the mutex is given back only when the queue is
\* empty, so it stays taken while the popped thunk is called.
ProcessLoop_keepsLock ==
    /\ ownerPc = "drain"
    /\ IF queue = <<>>
       THEN /\ ownerPc' = Ret(callback)
            /\ updateSaw' = AfterReturn(callback)
            /\ UNCHANGED <<queue, callback>>
       ELSE /\ callback' = Append(callback, front(queue))
            /\ queue' = pop(queue)
            /\ ownerPc' = "callback"
            /\ UNCHANGED updateSaw
    /\ mutex' = IF queue = <<>> THEN NULL ELSE Owner
    /\ UNCHANGED <<nowVars, taskVars, timeVars, executeCallbacksInLoop, ctxVars, ownerTask, ownerHandle,
                   enqLog, execLog, calls, submitted, cancelledAtCall, cancelledAtReturn>>

\* process(), mutex held: while (!queue.empty()) { callback = queue.front();
\* queue.pop(); xSemaphoreGive(mutex); ... } xSemaphoreGive(mutex);
ProcessLoop ==
    /\ ownerPc = "drain"
    /\ IF queue = <<>>
       THEN /\ ownerPc' = Ret(callback)
            /\ updateSaw' = AfterReturn(callback)
            /\ UNCHANGED <<queue, callback>>
       ELSE /\ callback' = Append(callback, front(queue))
            /\ queue' = pop(queue)
            /\ ownerPc' = "callback"
            /\ UNCHANGED updateSaw
    /\ mutex' = NULL
    /\ UNCHANGED <<nowVars, taskVars, timeVars, executeCallbacksInLoop, ctxVars, ownerTask, ownerHandle,
                   enqLog, execLog, calls, submitted, cancelledAtCall, cancelledAtReturn>>

\* process(): callback(); the thunk is entered: it calls the completion
\* callable with the captured result (a follow-up thunk has no callable).
ProcessCallback ==
    /\ ownerPc = "callback"
    /\ execLog' = Append(execLog, Top(callback))
    /\ calls' = IF Top(callback).ctx = NULL THEN calls
                ELSE [calls EXCEPT ![Top(callback).task] = Append(@, Top(callback).val)]
    /\ ownerPc' = "thunk"
    /\ UNCHANGED <<nowVars, taskVars, timeVars, executeCallbacksInLoop, queueVars, ctxVars, ownerTask,
                   ownerHandle, callback, enqLog, submitted, cancelledAtCall, cancelledAtReturn, updateSaw>>

\* process(): callback() returns
ThunkReturn ==
    /\ ownerPc = "thunk"
    /\ callback' = AllButTop(callback)
    /\ ownerPc' = "retake"
    /\ UNCHANGED <<nowVars, taskVars, timeVars, executeCallbacksInLoop, queueVars, ctxVars, ownerTask,
                   ownerHandle, histVars>>

\* process(): callback() throws: nothing in process(), update() or loop()
\* catches, std::terminate ends the program.
ThunkThrow ==
    /\ ownerPc = "thunk"
    /\ Top(callback).ctx # NULL
    /\ ownerPc' = "aborted"
    /\ UNCHANGED <<nowVars, taskVars, timeVars, executeCallbacksInLoop, queueVars, ctxVars, ownerTask,
                   ownerHandle, callback, histVars>>

\* The completion callable of a task calls CallbackQueue::enqueue with its
\* follow-up thunk (once per task).
ThunkEnqueue ==
    /\ ownerPc = "thunk"
    /\ Top(callback).ctx # NULL
    /\ \A i \in 1..Len(enqLog) : enqLog[i] # FollowUp(Top(callback).task)
    /\ ownerPc' = "cbTake"
    /\ UNCHANGED <<nowVars, taskVars, timeVars, executeCallbacksInLoop, queueVars, ctxVars, ownerTask,
                   ownerHandle, callback, histVars>>

\* CallbackQueue::enqueue on the control-loop thread: xSemaphoreTake(mutex, portMAX_DELAY)
OwnerEnqueueTake ==
    /\ ownerPc = "cbTake"
    /\ mutex = NULL
    /\ mutex' = Owner
    /\ ownerPc' = "cbPush"
    /\ UNCHANGED <<nowVars, taskVars, timeVars, executeCallbacksInLoop, queue, ctxVars, ownerTask,
                   ownerHandle, callback, histVars>>

\* CallbackQueue::enqueue on the control-loop thread: queue.push(callback)
OwnerEnqueuePush ==
    /\ ownerPc = "cbPush"
    /\ queue' = enqueue(queue, FollowUp(Top(callback).task))
    /\ enqLog' = Append(enqLog, FollowUp(Top(callback).task))
    /\ ownerPc' = "cbGive"
    /\ UNCHANGED <<nowVars, taskVars, timeVars, executeCallbacksInLoop, mutex, ctxVars, ownerTask,
                   ownerHandle, callback, execLog, calls, submitted, cancelledAtCall,
                   cancelledAtReturn, updateSaw>>

\* CallbackQueue::enqueue on the control-loop thread: xSemaphoreGive(mutex)
OwnerEnqueueGive ==
    /\ ownerPc = "cbGive"
    /\ mutex' = NULL
    /\ ownerPc' = "cbLog"
    /\ UNCHANGED <<nowVars, taskVars, timeVars, executeCallbacksInLoop, queue, ctxVars, ownerTask,
                   ownerHandle, callback, histVars>>

\* CallbackQueue::enqueue on the control-loop thread: ASYNC_LOG(...,
\* queue.size()) without the mutex; enqueue returns into the callable.
OwnerEnqueueLog ==
    /\ ownerPc = "cbLog"
    /\ ownerPc' = "thunk"
    /\ UNCHANGED <<nowVars, taskVars, timeVars, executeCallbacksInLoop, queueVars, ctxVars, ownerTask,
                   ownerHandle, callback, histVars>>

\* process(): xSemaphoreTake(mutex, portMAX_DELAY) after the thunk
ProcessRetake ==
    /\ ownerPc = "retake"
    /\ mutex = NULL
    /\ mutex' = Owner
    /\ ownerPc' = "drain"
    /\ UNCHANGED <<nowVars, taskVars, timeVars, executeCallbacksInLoop, queue, ctxVars, ownerTask,
                   ownerHandle, callback, histVars>>

\* CallbackQueue::size(), the value read at "sz = queue.size()"
size(q) == Len(q)

\* Async::pendingCallbacks() -> CallbackQueue::size(): about to take the mutex
PendingCallbacks ==
    /\ AtCall
    /\ ownerPc' = "size"
    /\ UNCHANGED <<nowVars, taskVars, timeVars, executeCallbacksInLoop, queueVars, ctxVars, ownerTask,
                   ownerHandle, callback, histVars>>

\* size(): xSemaphoreTake(mutex, portMAX_DELAY)
SizeTake ==
    /\ ownerPc = "size"
    /\ mutex = NULL
    /\ mutex' = Owner
    /\ ownerPc' = "sizeRead"
    /\ UNCHANGED <<nowVars, taskVars, timeVars, executeCallbacksInLoop, queue, ctxVars, ownerTask,
                   ownerHandle, callback, histVars>>

\* size(): sz = queue.size(); xSemaphoreGive(mutex); return sz;
SizeGive ==
    /\ ownerPc = "sizeRead"
    /\ mutex' = NULL
    /\ ownerPc' = Ret(callback)
    /\ UNCHANGED <<nowVars, taskVars, timeVars, executeCallbacksInLoop, queue, ctxVars, ownerTask,
                   ownerHandle, callback, histVars>>

\* ---- the clock and TaskHandle::getExecutionTime ----

\* millis() advances
Tick ==
    /\ ~Halted
    /\ clock < MaxClock
    /\ clock' = clock + 1
    /\ UNCHANGED <<nowVars, taskVars, startTime, endTime, executeCallbacksInLoop, queueVars, ctxVars,
                   ownerVars, histVars>>

\* uint32_t arithmetic on clock readings: a value is <<high, low>>, its two
\* 16-bit halves; a - b wraps around below zero.
Half == 65536
Sub32(a, b) == IF a >= b THEN <<0, a - b>> ELSE <<Half - 1, Half - (b - a)>>
Leq32(x, y) == x[1] < y[1] \/ (x[1] = y[1] /\ x[2] <= y[2])

\* TaskHandle::getExecutionTime()
getExecutionTime(t) ==
    IF startTime[t] = 0 THEN <<0, 0>>
    ELSE IF endTime[t] = 0 THEN Sub32(clock, startTime[t])
    ELSE Sub32(endTime[t], startTime[t])

\* ---- specification ----

\* A step of context c; no thread runs after std::terminate.
ContextStep(c) ==
    /\ ~Halted
    /\ \/ WrapperStart(c)
       \/ CallFunc(c)
       \/ FuncReturn(c)
       \/ FuncThrow(c)
       \/ CheckCancelled(c)
       \/ SetCompleted(c)
       \/ SetCompletedMillis(c)
       \/ SetCompletedEnd(c)
       \/ EnqueueTake(c)
       \/ EnqueuePush(c)
       \/ EnqueueGive(c)
       \/ EnqueueLog(c)
       \/ InlineCallback(c)
       \/ SetFailed(c)
       \/ SetFailedMillis(c)
       \/ SetFailedEnd(c)
       \/ WrapperExit(c)

Next ==
    \/ \E t \in Tasks : RunCreate(t)
    \/ \E t \in Tasks : RunFail(t)
    \/ RunFailState
    \/ RunFailMillis
    \/ RunFailEnd
    \/ RunSetHandle
    \/ RunSetStartMillis
    \/ RunSetStart
    \/ \E t \in Tasks : CancelSetFlag(t)
    \/ CancelCheck
    \/ CancelState
    \/ CancelMillis
    \/ CancelEnd
    \/ CancelDelete
    \/ \E b \in BOOLEAN : SetConfig(b)
    \/ Update
    \/ ProcessTryTake
    \/ ProcessLoop
    \/ ProcessCallback
    \/ ThunkReturn
    \/ ThunkThrow
    \/ ThunkEnqueue
    \/ OwnerEnqueueTake
    \/ OwnerEnqueuePush
    \/ OwnerEnqueueGive
    \/ OwnerEnqueueLog
    \/ ProcessRetake
    \/ PendingCallbacks
    \/ SizeTake
    \/ SizeGive
    \/ \E c \in Contexts : ContextStep(c)

Spec == Init /\ [][Next]_vars

\* run(), cancel() and the contexts with the clock advancing between their
\* steps, for the timestamps only: the tasks are configured for in-loop
\* delivery (the default TaskConfig) and loop() does not drain.
TimeInit == Init /\ \A t \in Tasks : executeInLoop[t]
TimeNext ==
    \/ \E t \in Tasks : RunCreate(t)
    \/ \E t \in Tasks : RunFail(t)
    \/ RunFailState
    \/ RunFailMillis
    \/ RunFailEnd
    \/ RunSetHandle
    \/ RunSetStartMillis
    \/ RunSetStart
    \/ \E t \in Tasks : CancelSetFlag(t)
    \/ CancelCheck
    \/ CancelState
    \/ CancelMillis
    \/ CancelEnd
    \/ CancelDelete
    \/ \E c \in Contexts : ContextStep(c)
    \/ Tick
TimeSpec == TimeInit /\ [][TimeNext]_vars

\* The steps that continue a call of the library the control-loop thread is
\* inside of (a completion callable returns in the end)
OwnerStep ==
    \/ RunFailState
    \/ RunFailMillis
    \/ RunFailEnd
    \/ RunSetHandle
    \/ RunSetStartMillis
    \/ RunSetStart
    \/ CancelCheck
    \/ CancelState
    \/ CancelMillis
    \/ CancelEnd
    \/ CancelDelete
    \/ ProcessTryTake
    \/ ProcessLoop
    \/ ProcessCallback
    \/ ThunkReturn
    \/ OwnerEnqueueTake
    \/ OwnerEnqueuePush
    \/ OwnerEnqueueGive
    \/ OwnerEnqueueLog
    \/ ProcessRetake
    \/ SizeTake
    \/ SizeGive

\* The steps of context c that are the library's: all but the return or the
\* throw of the work callable, which may run for ever (the callables of
\* main.cpp are endless loops).
LibraryStep(c) == ContextStep(c) /\ ctxPc[c] # "inFunc"

\* loop() of main.cpp calls Async::update() again and again
UpdateDrains == Update /\ executeCallbacksInLoop /\ ownerPc = "idle"

\* The FreeRTOS scheduler runs every ready thread: the control-loop thread
\* finishes the call it is in, every live context takes its next step
\* outside the work callable (a blocked xSemaphoreTake waits for the mutex),
\* and loop() keeps calling update().
Fairness ==
    /\ WF_vars(OwnerStep)
    /\ \A c \in Contexts : WF_vars(LibraryStep(c))
    /\ SF_vars(UpdateDrains)

FairSpec == Init /\ [][Next]_vars /\ Fairness

\* ---- shared vocabulary of the properties ----

\* Position of a state in Pending -> Running -> {Completed, Failed, Cancelled}
Rank(st) == IF st = Pending THEN 0 ELSE IF st = Running THEN 1 ELSE 2

\* The calls of run() on task t, and those that created a context
RunsOf(t) == {c \in Contexts : ctxTask[c] = t}
ContextsOf(t) == {c \in RunsOf(t) : ctxPc[c] # "nocontext"}

\* Contexts of t that handed the completion thunk to the queue or called it inline
Submissions(t) == {c \in RunsOf(t) : submitted[c] # "none"}

\* The thunk process() has popped and is about to call
Popped == IF ownerPc = "callback" THEN <<Top(callback)>> ELSE <<>>

\* Thunks that were pushed and are not executed yet: in the queue, or popped
\* by process() and about to be called
Waiting == Popped \o queue

\* Context c has ended by itself and nothing of it is still to be delivered
Finished(c) ==
    /\ ctxPc[c] = "done"
    /\ \A i \in 1..Len(Waiting) : Waiting[i].ctx # c

\* The owner is inside run() of task t
InRun(t) ==
    /\ ownerPc \in {"setHandle", "setStartMillis", "setStart", "failState", "failMillis", "failEnd"}
    /\ ownerTask = t

\* C1: the state of every Task only moves forward along
\* Pending -> Running -> {Completed, Failed, Cancelled}: it never returns to
\* Pending or Running after leaving them and a terminal state is never
\* replaced by another state.
C1_StateOnlyMovesForward ==
    [][\A t \in Tasks : state'[t] # state[t] => Rank(state'[t]) > Rank(state[t])]_vars

\* C2: a Task run once, whose work callable returned normally and that was
\* never cancelled, has ended in Completed with its completion callable called
\* exactly once with the value the work callable returned.
C2_CompletedWithResultOnce ==
    \A t \in Tasks : \A c \in Contexts :
        ( /\ RunsOf(t) = {c}
          /\ ~InRun(t)
          /\ ~cancelled[t]
          /\ work[c] = "returned"
          /\ Finished(c) )
        => (state[t] = Completed /\ calls[t] = <<func(t)>>)

\* C3: when cancel() was requested before the work callable of a context began
\* (the Task still Pending, or the context already created), the work callable
\* never runs (no context whose Task has the cancelled flag set enters it) and
\* the completion callable is neither called nor enqueued.
C3_CancelledBeforeWorkNeverRuns ==
    /\ [][\A c \in Contexts :
            (ctxPc[c] \in {"start", "func"} /\ cancelled[ctxTask[c]])
            => ctxPc'[c] # "inFunc"]_vars
    /\ [](\A c \in Contexts : cancelledAtCall[c] => submitted[c] = "none")

\* C4: over any calls of run() and cancel(), the completion thunk of a Task is
\* enqueued or called inline at most once in total, and only when the
\* cancelled flag was not set when the work callable returned.
C4_SubmittedAtMostOnce ==
    \A t \in Tasks :
        /\ Cardinality(Submissions(t)) <= 1
        /\ \A c \in Submissions(t) : ~cancelledAtReturn[c]

\* C5: a Task in state Failed or Cancelled has not had its completion callable
\* called and has no completion thunk enqueued.
C5_NoCallbackWhenFailedOrCancelled ==
    \A t \in Tasks :
        state[t] \in {Failed, Cancelled} => (Submissions(t) = {} /\ calls[t] = <<>>)

\* Positions from which the next step of a context is a step of the task body:
\* the work callable, the store of Completed or Failed, the submission of the
\* completion thunk (the two reads of the cancelled flag and the exit are not).
BodyPcs ==
    {"func", "inFunc", "complete", "completeMillis", "completeEnd", "take", "push", "give",
     "log", "inline", "failed", "failedMillis", "failedEnd"}

\* C6: once cancel() has found the Task Running and stored Cancelled, the context
\* it terminates takes no further step of the task body (work callable, store
\* of Completed or Failed, callback submission): terminating it and setting
\* Cancelled are one step for the worker.
C6_NoBodyStepAfterCancel ==
    [][\A c \in Contexts :
        ( /\ ownerPc \in {"cancelMillis", "cancelEnd", "cancelDelete"}
          /\ taskHandle[ownerTask] = c
          /\ ctxPc[c] \in BodyPcs )
        => ctxPc'[c] \in {ctxPc[c], "killed"}]_vars

\* ---- CallbackQueue properties ----

IsPrefix(p, q) == Len(p) <= Len(q) /\ \A i \in 1..Len(p) : p[i] = q[i]

\* Positions of context c's thunk in a sequence of thunks
Places(q, c) == {i \in 1..Len(q) : q[i].ctx = c}

\* C7: the draining thread executes thunks in the order their pushes happened
\* under the lock: what process() has executed and holds is at every moment
\* a prefix of the push order, also while further pushes interleave.
C7_DrainIsFifo == IsPrefix(execLog \o Popped, enqLog)

C7_Witness ==
    /\ Len(execLog) = 2
    /\ execLog[1].ctx # execLog[2].ctx

\* The step of process() that finds the mutex taken and returns
BusyDrain == ownerPc = "process" /\ ownerPc' \in {"idle", "thunk"}

\* The step of process() that finds the queue empty and returns
DrainDone == ownerPc = "drain" /\ ownerPc' \in {"idle", "thunk"}

\* C8: a drain that finds the lock unavailable returns at once and neither
\* executes nor removes a thunk; no pushed thunk is lost or duplicated (each is
\* exactly once among the executed and the waiting ones), and a drain that
\* got the lock returns only when every thunk pushed so far was executed.
C8_BusyDrainLosesNothing ==
    /\ [][BusyDrain => UNCHANGED <<queue, callback, execLog, calls>>]_vars
    /\ [][DrainDone => (queue' = <<>> /\ execLog' = enqLog')]_vars
    /\ [](\A c \in Contexts :
            Cardinality(Places(execLog \o Waiting, c)) = Cardinality(Places(enqLog, c)))
    /\ [](\A c \in Contexts : Cardinality(Places(enqLog, c)) <= 1)

C8_Witness ==
    /\ ownerPc = "process"
    /\ mutex \in Contexts
    /\ queue # <<>>
    /\ execLog # <<>>

\* C9: update() drains the queue exactly when executeCallbacksInLoop is
\* enabled, and while that flag is disabled every completion is called inline
\* on its worker: no thunk is pushed to wait for an update() that will not
\* drain it.
C9_DisabledLoopMeansInline ==
    /\ [][(ownerPc \in {"idle", "thunk"} /\ ownerPc' = "process")
          => executeCallbacksInLoop]_vars
    /\ [][\A c \in Contexts :
            (~executeCallbacksInLoop /\ submitted'[c] # submitted[c])
            => submitted'[c] = "inline"]_vars

\* C10: a thunk that was pushed is never removed by cancel() (it leaves the
\* waiting thunks only by being executed), and while the control loop keeps
\* calling update() with in-loop delivery enabled (update() enters process()
\* again and again) it is eventually executed.
C10_EnqueuedIsEventuallyExecuted ==
    /\ [][\A c \in Contexts :
            Places(Waiting, c) # {}
            => (Places(Waiting', c) # {} \/ Places(execLog', c) # {})]_vars
    /\ ([]<>executeCallbacksInLoop /\ []<>(ownerPc = "process"))
       => \A c \in Contexts : (Places(Waiting, c) # {}) ~> (Places(execLog, c) # {})


\* ---- launch failure ----

\* The step on which a run() whose launch failed returns false
RunFailReturns == ownerPc = "failEnd" /\ ownerPc' # "failEnd"

\* C11: a call of run() whose launch fails (call number c created no context)
\* returns with the state of the Task Failed, and for that call the work
\* callable is never executed and no completion thunk is called or enqueued;
\* a Task whose only call of run() failed stays Failed with its completion
\* callable never called, whatever cancel() and update() follow.
C11_FailedLaunchRunsNothing ==
    /\ [][RunFailReturns => state'[ownerTask] = Failed]_vars
    /\ [](\A c \in Contexts :
            ctxPc[c] = "nocontext"
            => ( /\ work[c] = "no"
                 /\ submitted[c] = "none"
                 /\ Places(enqLog, c) = {} ))
    /\ [](\A t \in Tasks : \A c \in Contexts :
            (RunsOf(t) = {c} /\ ctxPc[c] = "nocontext" /\ ~InRun(t))
            => ( /\ state[t] = Failed
                 /\ taskHandle[t] = NULL
                 /\ Submissions(t) = {}
                 /\ calls[t] = <<>> ))


\* ---- two completed tasks and one update() ----

\* The step on which update() returns, and the one on which
\* pendingCallbacks() returns size(queue)
UpdateReturns == ownerPc \in {"process", "drain"} /\ ownerPc' = "idle"
PendingCallbacksReturns == ownerPc = "sizeRead" /\ ownerPc' = "idle"

\* C12: with in-loop delivery enabled, an update() called when the two
\* fire-and-forget tasks both report Completed has executed the completion
\* callable of both when it returns, and a pendingCallbacks() after it
\* returns 0.
C12_OneUpdateDrainsBoth ==
    /\ [][(UpdateReturns /\ updateSaw = "call")
          => \A t \in Tasks : calls'[t] = <<func(t)>>]_vars
    /\ [][(PendingCallbacksReturns /\ updateSaw = "after")
          => size(queue) = 0]_vars


\* ---- execution time ----

\* C13: the value getExecutionTime() returns never decreases while the Task is
\* Running, and from the moment the Task has entered a terminal state no step
\* changes it, whatever operation the step belongs to (it stays the duration
\* from start to end).
C13_ExecutionTimeMonotoneThenFixed ==
    /\ [][\A t \in Tasks :
            (state[t] = Running /\ state'[t] = Running)
            => Leq32(getExecutionTime(t), getExecutionTime(t)')]_vars
    /\ [][\A t \in Tasks :
            state[t] \in Terminal => getExecutionTime(t)' = getExecutionTime(t)]_vars


\* ---- the lock and the thunks ----

\* C14: while process() is inside a thunk the draining thread does not hold the
\* mutex, so the enqueue a thunk makes finds the mutex free or held by a
\* worker, never by its own thread; and a drain that returns after taking
\* the mutex has executed every follow-up thunk its thunks enqueued.
C14_LockFreeInsideThunk ==
    /\ [](ownerPc \in {"callback", "thunk", "cbTake"} => mutex # Owner)
    /\ [][DrainDone =>
            Cardinality(Places(execLog', NULL)) = Cardinality(Places(enqLog', NULL))]_vars

C14_Witness ==
    /\ ownerPc = "thunk"
    /\ Top(callback).ctx = NULL
    /\ mutex \in Contexts


\* C15: update() never makes the control-loop thread wait for the mutex: no
\* state has the drain standing at a lock acquisition that a worker's hold
\* on the mutex keeps from succeeding (every acquisition of the drain succeeds
\* at once or makes the drain return).
C15_DrainNeverWaits ==
    ownerPc = "retake" => mutex \notin Contexts

\* ---- handles and execution contexts ----

\* C16: a TaskHandle holds an execution-context handle only while its state is
\* Running: in Pending, Completed, Failed and Cancelled the handle is null.
C16_HandleOnlyWhileRunning ==
    \A t \in Tasks : taskHandle[t] # NULL => state[t] = Running

\* The next statement of the control-loop thread stores TaskHandle::state of t
\* (setHandle and setState(Failed) in run(), setState(Cancelled) in cancel());
\* the next statement of context c stores it (setState(Completed),
\* setState(Failed)).
OwnerWritesState(t) ==
    /\ ownerTask = t
    /\ ownerPc \in {"setHandle", "failState", "cancelState"}
WorkerWritesState(c) == ctxPc[c] \in {"complete", "failed"}

\* C17: only the CallbackQueue is shared for writing and its container is
\* touched under the mutex only: no state has the control-loop thread and a
\* worker both about to store the same TaskHandle field with nothing ordering
\* the two stores, and no thread reads or writes the queue without holding
\* the mutex.
C17_OnlyQueueSharedAndLocked ==
    /\ \A c \in Contexts :
            ~(OwnerWritesState(ctxTask[c]) /\ WorkerWritesState(c))
    /\ \A c \in Contexts : ctxPc[c] \in {"push", "log"} => mutex = c
    /\ ownerPc \in {"drain", "sizeRead", "cbPush", "cbLog"} => mutex = Owner

\* The step of cancel() that calls vTaskDelete(taskHandle)
ForcedTerminate == ownerPc = "cancelDelete" /\ ownerPc' # "cancelDelete"

\* C18: vTaskDelete(taskHandle) is called by cancel() only on a context that
\* is alive: never on one that has ended by itself and never a second time
\* on one that was terminated, over any calls of run() and cancel().
C18_TerminateOnlyLiveContext ==
    [][ForcedTerminate => Alive(taskHandle[ownerTask])]_vars

\* C19: cancel() never terminates a context that holds the mutex: in every
\* state the mutex is free or held by a live thread.
C19_LockHolderIsAlive ==
    /\ [][\A c \in Contexts :
            (ctxPc[c] # "killed" /\ ctxPc'[c] = "killed") => mutex # c]_vars
    /\ [](mutex \in Contexts => Alive(mutex))

\* C20: a Task whose execution contexts have all ended (by themselves or
\* terminated by cancel()) is in a terminal state once run() and cancel() have
\* returned: it is not left Running (or Pending) with its context gone, also
\* when cancel() came while it was Pending and run() after it.
C20_EndedContextMeansTerminal ==
    \A t \in Tasks :
        ( /\ ownerPc = "idle"
          /\ ContextsOf(t) # {}
          /\ \A c \in ContextsOf(t) : ctxPc[c] \in {"done", "killed"} )
        => state[t] \in Terminal

====
